---- MODULE Spec2Model ----
(***************************************************************************)
(* Canvas completion grader (canvas_completion_grader.py).                 *)
(*                                                                         *)
(* One run of main() against a Canvas server: the retry client             *)
(* CanvasClient._request, the pagination reader _get_paginated, the three  *)
(* domain operations and the grading loop of main().  The server is the    *)
(* environment: every HTTP exchange is one step whose response the server  *)
(* chooses.                                                                *)
(*                                                                         *)
(* Time is counted in quarter seconds so that the 0.25 s coefficient of    *)
(* the backoff stays an integer; dates are counted in whole days.          *)
(* Python strings that the program transforms (grades) are sequences of    *)
(* one-character strings; Python None / JSON null is an explicit tag.      *)
(***************************************************************************)
EXTENDS Integers, Sequences, FiniteSets, TLC

\* ---------------------------------------------------------------- bounds
\* number of assignments the course holds
MaxAssignments == 2
\* number of submission records one assignment holds
MaxSubs == 2
\* 429 answers to the next-page fetches of one listing (the code sets no cap)
MaxNext429 == 2
\* runs of the program against the same server
MaxRuns == 2

\* ------------------------------------------------------ program constants
max_attempts == 8
backoff == 2
SleepCap == 60
NextPageFallbackSleep == 10
\* 1 / 0.25: quarter seconds in a second
Quarters == 4

\* ------------------------------------------------------------ Python values
NoText == [some |-> FALSE, v |-> <<>>]
Text(s) == [some |-> TRUE, v |-> s]
NoInt == [some |-> FALSE, v |-> 0]
Num(n) == [some |-> TRUE, v |-> n]

Min(a, b) == IF a <= b THEN a ELSE b

RECURSIVE Pow(_, _)
Pow(b, e) == IF e = 0 THEN 1 ELSE b * Pow(b, e - 1)

UpperChars == <<"A","B","C","D","E","F","G","H","I","J","K","L","M",
                "N","O","P","Q","R","S","T","U","V","W","X","Y","Z">>
LowerChars == <<"a","b","c","d","e","f","g","h","i","j","k","l","m",
                "n","o","p","q","r","s","t","u","v","w","x","y","z">>
Whitespace == {" ", "\t", "\n", "\r"}
DigitChars == <<"0","1","2","3","4","5","6","7","8","9">>

\* str.lower() on one character
LowerChar(c) ==
    IF \E i \in 1..26 : UpperChars[i] = c
    THEN LowerChars[CHOOSE i \in 1..26 : UpperChars[i] = c]
    ELSE c

\* str.lower()
Lower(s) == [i \in 1..Len(s) |-> LowerChar(s[i])]

\* str.strip(): drop leading and trailing whitespace
RECURSIVE LStrip(_)
LStrip(s) == IF s # <<>> /\ Head(s) \in Whitespace THEN LStrip(Tail(s)) ELSE s

RECURSIVE RStrip(_)
RStrip(s) ==
    IF s # <<>> /\ s[Len(s)] \in Whitespace
    THEN RStrip(SubSeq(s, 1, Len(s) - 1))
    ELSE s

Strip(s) == RStrip(LStrip(s))

\* str(n) for an integer n
RECURSIVE StrNat(_)
StrNat(n) ==
    IF n < 10 THEN <<DigitChars[n + 1]>>
    ELSE StrNat(n \div 10) \o <<DigitChars[(n % 10) + 1]>>

StrInt(n) == IF n < 0 THEN <<"-">> \o StrNat(0 - n) ELSE StrNat(n)

\* int(x) for a number x given in tenths: truncation toward zero
IntTrunc(tenths) == IF tenths < 0 THEN 0 - ((0 - tenths) \div 10) ELSE tenths \div 10

COMPLETE == <<"c","o","m","p","l","e","t","e">>
INCOMPLETE == <<"i","n","c","o","m","p","l","e","t","e">>
COMPLETE_INCOMPLETE == "complete_incomplete"

\* ------------------------------------------------------------ Business Logic

\* parse_canvas_datetime: None for a falsy string, else the parsed instant;
\* isoparse raises ValueError on a string that is no ISO-8601 timestamp.
\* A timestamp is [kind |-> "null" | "iso" | "bad", t |-> day].
NoDate == [kind |-> "null", t |-> 0]
Iso(t) == [kind |-> "iso", t |-> t]
BadDate == [kind |-> "bad", t |-> 0]

parse_canvas_datetime(dt_str) ==
    CASE dt_str.kind = "null" -> [raises |-> FALSE, some |-> FALSE, t |-> 0]
      [] dt_str.kind = "iso"  -> [raises |-> FALSE, some |-> TRUE, t |-> dt_str.t]
      [] OTHER                -> [raises |-> TRUE, some |-> FALSE, t |-> 0]

is_within_window(due_at, start, end) == start <= due_at /\ due_at < end

\* compute_due_window: (now - (grace + window) days, now - grace days)
compute_due_window(c, now_local) ==
    [start |-> now_local - (c.grace_days + c.window_days),
     end   |-> now_local - c.grace_days]

\* should_run_now; at_thu_5pm is what the clock says when it is read
should_run_now(c, at_thu_5pm) == (~c.enforce_thursday_5pm) \/ at_thu_5pm

normalize_ci_grade(value) ==
    IF ~value.some THEN NoText
    ELSE LET v == Lower(Strip(value.v))
         IN  IF v \in {COMPLETE, INCOMPLETE} THEN Text(v) ELSE NoText

\* Python's `x or y` on optional strings: x unless x is None or ""
PyOr(x, y) == IF x.some /\ x.v # <<>> THEN x ELSE y

\* a variant that rounds the points instead of truncating them
DesiredGradeRounded(a, s) ==
    LET submitted_at == parse_canvas_datetime(s.submitted_at)
    IN  IF a.grading_type = COMPLETE_INCOMPLETE
        THEN IF submitted_at.some THEN COMPLETE ELSE INCOMPLETE
        ELSE LET full_points == IF a.points_possible.some
                                THEN IntTrunc(a.points_possible.v + 5)
                                ELSE 1
             IN  IF submitted_at.some THEN StrInt(full_points) ELSE <<"0">>

\* main, lines 344-353: the grade to post
DesiredGrade(a, s) ==
    LET submitted_at == parse_canvas_datetime(s.submitted_at)
    IN  IF a.grading_type = COMPLETE_INCOMPLETE
        THEN IF submitted_at.some THEN COMPLETE ELSE INCOMPLETE
        ELSE LET full_points == IF a.points_possible.some
                                THEN IntTrunc(a.points_possible.v)
                                ELSE 1
             IN  IF submitted_at.some THEN StrInt(full_points) ELSE <<"0">>

\* a variant that reads posted_grade only
CurrentGradePostedOnly(s) == normalize_ci_grade(s.posted_grade)

\* main, line 356: the grade the submission already carries
CurrentGrade(s) == PyOr(normalize_ci_grade(s.posted_grade), normalize_ci_grade(s.grade))

\* a variant without the comparison: every submission is written
NeedsWriteAlways(a, s) == TRUE

\* main, line 357: `current == desired` decides the skip
NeedsWrite(a, s) == CurrentGrade(s) # Text(DesiredGrade(a, s))


\* eligible.sort(key=due_at): a stable ascending sort on the due timestamp
RECURSIVE InsertByDue(_, _)
InsertByDue(a, sorted) ==
    IF sorted = <<>> THEN <<a>>
    ELSE IF a.due_at.t < Head(sorted).due_at.t
         THEN <<a>> \o sorted
         ELSE <<Head(sorted)>> \o InsertByDue(a, Tail(sorted))

RECURSIVE SortByDue(_)
SortByDue(as) ==
    IF as = <<>> THEN <<>>
    ELSE InsertByDue(as[Len(as)], SortByDue(SubSeq(as, 1, Len(as) - 1)))

\* main, lines 301-311: does assignment a pass the filters (due_at parses)
IsEligible(c, w, a) ==
    LET due_at == parse_canvas_datetime(a.due_at)
    IN  /\ due_at.some
        /\ ~(c.assignment_group_id.some /\ a.assignment_group_id # c.assignment_group_id.v)
        /\ ~(c.require_complete_incomplete /\ a.grading_type # COMPLETE_INCOMPLETE)
        /\ is_within_window(due_at.t, w.start, w.end)

RECURSIVE SelectEligible(_, _, _)
SelectEligible(c, w, as) ==
    IF as = <<>> THEN <<>>
    ELSE (IF IsEligible(c, w, Head(as)) THEN <<Head(as)>> ELSE <<>>)
         \o SelectEligible(c, w, Tail(as))

\* does parsing some due_at of the list raise (isoparse ValueError, line 300)
DueParseRaises(as) == \E i \in 1..Len(as) : parse_canvas_datetime(as[i].due_at).raises

\* ------------------------------------------------------------ Canvas API Client

\* _request sleeps, in quarter seconds

\* a variant without the 0.25 coefficient
BackoffSleepUnscaled(attempt) == Quarters * Min(SleepCap, Pow(backoff, attempt))

\* min(60, backoff ** attempt * 0.25): transport errors and 5xx
BackoffSleep(attempt) == Min(SleepCap * Quarters, Pow(backoff, attempt))

\* a variant without the cap
RateLimitFallbackSleepUncapped(attempt) == Quarters * Pow(backoff, attempt)

\* min(60, int(backoff ** attempt)): 429 without a usable Retry-After
RateLimitFallbackSleep(attempt) == Quarters * Min(SleepCap, Pow(backoff, attempt))

\* int(retry_after) + 1
RetryAfterSleep(n) == Quarters * (n + 1)

\* A Retry-After header: absent (or text that is no number, which the code
\* treats alike), a decimal number, or text that str.isdigit() accepts and
\* int() rejects (such as a superscript digit).
NoHeader == [kind |-> "absent", n |-> 0]
RetryAfterHeaders ==
    {NoHeader, [kind |-> "digits", n |-> 3], [kind |-> "isdigit_not_int", n |-> 0]}

\* retry_after and retry_after.isdigit()
UsesRetryAfter(h) == h.kind \in {"digits", "isdigit_not_int"}

\* requests.Response.ok
Ok(r) == r.status < 400

RateLimited == 429
ServerErrorStatuses == {500}
\* statuses that are neither 429 nor 5xx
OtherStatuses == {200, 404}

\* _parse_link_header.  A header is a sequence of comma separated parts; a part
\* is [url, angle (is the url written <...>), params (the ;-separated rest, each
\* [key, val])].  The result maps a relation to its url.
RECURSIVE LastRel(_)
LastRel(params) ==
    IF params = <<>> THEN ""
    ELSE IF params[Len(params)].key = "rel"
         THEN params[Len(params)].val
         ELSE LastRel(SubSeq(params, 1, Len(params) - 1))

RECURSIVE ParseLinkParts(_, _)
ParseLinkParts(parts, links) ==
    IF parts = <<>> THEN links
    ELSE LET part == Head(parts)
             rel == LastRel(part.params)
         IN  IF part.params = <<>> \/ ~part.angle \/ rel = ""
             THEN ParseLinkParts(Tail(parts), links)
             ELSE ParseLinkParts(Tail(parts),
                      [r \in DOMAIN links \cup {rel} |->
                          IF r = rel THEN part.url ELSE links[r]])

_parse_link_header(link_header) == ParseLinkParts(link_header, <<>>)

\* links.get("next"); 0 stands for None
LinkNext(links) == IF "next" \in DOMAIN links THEN links["next"] ELSE 0


\* ------------------------------------------------------------ state

VARIABLES
    \* the environment
    cfg,                 \* Config, as load_config returns it
    remote_assignments,  \* the server's assignments of the course
    remote_subs,         \* the server's submissions, by assignment id
    \* main()
    run,                 \* which run of the program this is
    pc,                  \* where main() stands
    window,              \* (start_dt, end_dt)
    assignments, eligible, a_i,
    submissions, s_i,
    total_updates, total_skips_same, total_errors,
    updates_for_assignment, skips_for_assignment,
    exit_code,           \* what main() returned; -1 before it returns
    uncaught,            \* the exception that left main(), "" if none
    \* the client operation in progress
    op,                  \* which operation, with its arguments
    cl,                  \* where the operation stands
    attempt,             \* _request's loop variable
    resp,                \* the response of the last exchange; NoResp if it
                         \* brought none
    slept,               \* the time.sleep that followed the last exchange,
                         \* in quarter seconds; 0 if none did
    next_url,            \* _get_paginated's next_url (a page start, 0 for None)
    yielded,             \* what _get_paginated has yielded
    exc,                 \* the exception the last operation raised, "" if none
    all_5xx,             \* every exchange of this _request call was answered 5xx
    \* history
    fetches,             \* _get_paginated's calls of _request and session.get
    next_429s,           \* 429 answers to next-page fetches of the operation
    pages,               \* pages the operation has received
    methods,             \* HTTP methods sent so far
    writes,              \* the update_submission_grade calls so far; ok says
                         \* that the call returned
    fetched              \* the list_submissions calls of the run that are
                         \* over; ok says that the call returned

env_vars == <<cfg, remote_assignments, run>>
main_vars == <<pc, window, assignments, eligible, a_i, submissions, s_i,
               total_updates, total_skips_same, total_errors,
               updates_for_assignment, skips_for_assignment, exit_code, uncaught>>
client_vars == <<op, cl, attempt, resp, slept, next_url, yielded, exc,
                 all_5xx, fetches, next_429s, pages>>
vars == <<env_vars, remote_subs, main_vars, client_vars, methods, writes, fetched>>

\* datetime.now(tz), in days
Now == 20

NoResp == [status |-> 0, retry_after |-> NoHeader, start |-> 0, count |-> 0,
           is_list |-> TRUE, link |-> <<>>]
NoOp == [name |-> "none", method |-> "", assignment |-> 0, user |-> 0, grade |-> <<>>]

\* ------------------------------------------------------------ the server

\* what the listing requested by operation o holds
Listing(o) ==
    IF o.name = "list_assignments" THEN remote_assignments
    ELSE remote_subs[o.assignment]

LinkPart(url, rel) ==
    [url |-> url, angle |-> TRUE, params |-> <<[key |-> "rel", val |-> rel]>>]

\* the Link header of a page that starts at `start` and holds `count` records
LinkHeader(o, start, count) ==
    <<LinkPart(start, "current")>>
    \o (IF start + count <= Len(Listing(o))
        THEN <<LinkPart(start + count, "next")>> ELSE <<>>)
    \o <<LinkPart(1, "first")>>

\* the page sizes the server may answer with for a page starting at `start`
PageCounts(o, start) ==
    IF Len(Listing(o)) < start THEN {0} ELSE 1..(Len(Listing(o)) - start + 1)

\* a 2xx answer to a GET of the page starting at `start`; a page of one record
\* may come as a bare JSON object instead of a list
PageResponses(o, start) ==
    UNION {{[status |-> 200, retry_after |-> NoHeader, start |-> start, count |-> n,
             is_list |-> l, link |-> LinkHeader(o, start, n)] :
                l \in IF n = 1 THEN BOOLEAN ELSE {TRUE}} :
           n \in PageCounts(o, start)}

\* the records of a page body
Records(o, r) == SubSeq(Listing(o), r.start, r.start + r.count - 1)

\* a variant without the else branch: a bare object is not yielded
YieldPageListOnly(o, r) == IF r.is_list THEN Records(o, r) ELSE <<>>

\* _get_paginated, lines 183-188 and 205-210: what one page yields
YieldPage(o, r) == IF r.is_list THEN Records(o, r) ELSE <<Records(o, r)[1]>>

\* what is kept of a response once its body has been consumed
Consumed(r) == [NoResp EXCEPT !.status = r.status, !.retry_after = r.retry_after]

\* the server stores a posted grade: every submission of the user gets it
ApplyGrade(o) ==
    [remote_subs EXCEPT ![o.assignment] =
        [i \in 1..Len(@) |->
            IF @[i].user_id = Num(o.user)
            THEN [@[i] EXCEPT !.posted_grade = Text(o.grade)]
            ELSE @[i]]]


\* ------------------------------------------------------------ _request

\* a client operation starts; a listing enters _get_paginated, which calls
\* _request at once
StartCall(o) ==
    /\ op' = o
    /\ cl' = "request"
    /\ attempt' = 1
    /\ resp' = NoResp
    /\ slept' = 0
    /\ next_url' = 0
    /\ yielded' = <<>>
    /\ exc' = ""
    /\ all_5xx' = TRUE
    /\ fetches' = IF o.method = "GET" THEN 1 ELSE 0
    /\ next_429s' = 0
    /\ pages' = 0

\* the operation is over and main() has taken its result; exc keeps the
\* exception for the log
EndCall ==
    /\ op' = NoOp
    /\ cl' = "idle"
    /\ attempt' = 0
    /\ resp' = NoResp
    /\ slept' = 0
    /\ next_url' = 0
    /\ yielded' = <<>>
    /\ all_5xx' = FALSE
    /\ fetches' = 0
    /\ UNCHANGED exc
    /\ next_429s' = 0
    /\ pages' = 0

\* one HTTP request goes out
Send == methods' = methods \cup {op.method}

\* a variant whose loop is one iteration short: range(1, max_attempts)
LastAttemptEarly(n) == n >= max_attempts - 1

\* for attempt in range(1, max_attempts + 1): is this the last iteration
LastAttempt(n) == n = max_attempts

Raise(e) ==
    /\ cl' = "raised"
    /\ exc' = e

\* lines 122-136: session.request raises a RequestException.  The name resp
\* keeps an earlier response here, which no later line reads before it is
\* bound again: the exchange brought no response.
ReqTransportError ==
    /\ cl = "request"
    /\ Send
    /\ resp' = NoResp
    /\ IF LastAttempt(attempt)
       THEN /\ Raise("RequestException")
            /\ slept' = 0
            /\ UNCHANGED attempt
       ELSE /\ slept' = BackoffSleep(attempt)
            /\ attempt' = attempt + 1
            /\ UNCHANGED <<cl, exc>>
    /\ UNCHANGED <<op, next_url, yielded, fetches, next_429s, pages>>
    /\ all_5xx' = FALSE
    /\ UNCHANGED <<env_vars, remote_subs, main_vars, writes, fetched>>

\* lines 138-143, and line 155 when the loop runs out: the server answers 429
ReqRateLimited ==
    /\ cl = "request"
    /\ Send
    /\ \E h \in RetryAfterHeaders :
        /\ resp' = [NoResp EXCEPT !.status = RateLimited, !.retry_after = h]
        /\ IF h.kind = "isdigit_not_int"
           THEN /\ Raise("ValueError")
                /\ slept' = 0
                /\ UNCHANGED attempt
           ELSE /\ slept' = IF UsesRetryAfter(h)
                            THEN RetryAfterSleep(h.n)
                            ELSE RateLimitFallbackSleep(attempt)
                /\ IF LastAttempt(attempt)
                   THEN /\ cl' = "responded"
                        /\ UNCHANGED <<attempt, exc>>
                   ELSE /\ attempt' = attempt + 1
                        /\ UNCHANGED <<cl, exc>>
    /\ UNCHANGED <<op, next_url, yielded, fetches, next_429s, pages>>
    /\ all_5xx' = FALSE
    /\ UNCHANGED <<env_vars, remote_subs, main_vars, writes, fetched>>

\* lines 145-151: the server answers 5xx
ReqServerError ==
    /\ cl = "request"
    /\ Send
    /\ \E st \in ServerErrorStatuses :
        resp' = [NoResp EXCEPT !.status = st]
    /\ IF LastAttempt(attempt)
       THEN /\ cl' = "responded"
            /\ slept' = 0
            /\ UNCHANGED attempt
       ELSE /\ slept' = BackoffSleep(attempt)
            /\ attempt' = attempt + 1
            /\ UNCHANGED cl
    /\ UNCHANGED <<exc, op, next_url, yielded, fetches, next_429s, pages>>
    /\ UNCHANGED all_5xx
    /\ UNCHANGED <<env_vars, remote_subs, main_vars, writes, fetched>>

\* line 153: the server answers 2xx; it has applied a PUT
ReqSucceeded ==
    /\ cl = "request"
    /\ Send
    /\ IF op.method = "GET"
       THEN /\ resp' \in PageResponses(op, 1)
            /\ UNCHANGED remote_subs
       ELSE /\ resp' = [NoResp EXCEPT !.status = 200]
            /\ remote_subs' = ApplyGrade(op)
    /\ cl' = "responded"
    /\ slept' = 0
    /\ UNCHANGED <<attempt, exc, op, next_url, yielded, fetches, next_429s, pages>>
    /\ all_5xx' = FALSE
    /\ UNCHANGED <<env_vars, main_vars, writes, fetched>>

\* line 153: the server answers with a status that is neither 2xx, 429 nor 5xx
ReqRejected ==
    /\ cl = "request"
    /\ Send
    /\ \E st \in OtherStatuses \ {200} :
        resp' = [NoResp EXCEPT !.status = st]
    /\ cl' = "responded"
    /\ slept' = 0
    /\ UNCHANGED <<attempt, exc, op, next_url, yielded, fetches, next_429s, pages>>
    /\ all_5xx' = FALSE
    /\ UNCHANGED <<env_vars, remote_subs, main_vars, writes, fetched>>

\* ------------------------------------------------------------ _get_paginated

IsListing(o) == o.name \in {"list_assignments", "list_submissions"}

\* lines 179-192: the first page, as _request returned it
FirstPage ==
    /\ cl = "responded"
    /\ IsListing(op)
    /\ IF ~Ok(resp)
       THEN /\ Raise("RuntimeError")
            /\ UNCHANGED <<yielded, next_url, pages>>
       ELSE /\ yielded' = YieldPage(op, resp)
            /\ next_url' = LinkNext(_parse_link_header(resp.link))
            /\ pages' = 1
            /\ cl' = IF next_url' # 0 THEN "next_page" ELSE "returned"
            /\ UNCHANGED exc
    /\ resp' = Consumed(resp)
    /\ attempt' = 0
    /\ slept' = 0
    /\ UNCHANGED <<op, fetches, next_429s, methods>>
    /\ all_5xx' = FALSE
    /\ UNCHANGED <<env_vars, remote_subs, main_vars, writes, fetched>>

\* a variant that fetches next pages as _request would: sleep and ask again
NextTransportErrorRetried ==
    /\ cl = "next_page"
    /\ Send
    /\ fetches' = fetches + 1
    /\ resp' = NoResp
    /\ slept' = BackoffSleep(1)
    /\ UNCHANGED <<op, cl, exc, attempt, next_url, yielded, next_429s, pages>>
    /\ all_5xx' = FALSE
    /\ UNCHANGED <<env_vars, remote_subs, main_vars, writes, fetched>>

\* line 195: session.get(next_url) raises a RequestException
NextTransportError ==
    /\ cl = "next_page"
    /\ Send
    /\ fetches' = fetches + 1
    /\ resp' = NoResp
    /\ slept' = 0
    /\ Raise("RequestException")
    /\ UNCHANGED <<op, attempt, next_url, yielded, next_429s, pages>>
    /\ all_5xx' = FALSE
    /\ UNCHANGED <<env_vars, remote_subs, main_vars, writes, fetched>>

\* lines 196-201: 429 on a next page; the loop has no attempt counter.  The
\* history counts the first MaxNext429 such answers of an operation.
NextRateLimited ==
    /\ cl = "next_page"
    /\ Send
    /\ fetches' = IF next_429s < MaxNext429 THEN fetches + 1 ELSE fetches
    /\ next_429s' = IF next_429s < MaxNext429 THEN next_429s + 1 ELSE next_429s
    /\ \E h \in RetryAfterHeaders :
        /\ resp' = [NoResp EXCEPT !.status = RateLimited, !.retry_after = h]
        /\ IF h.kind = "isdigit_not_int"
           THEN /\ Raise("ValueError")
                /\ slept' = 0
           ELSE /\ slept' = IF UsesRetryAfter(h)
                            THEN RetryAfterSleep(h.n)
                            ELSE Quarters * NextPageFallbackSleep
                /\ UNCHANGED <<cl, exc>>
    /\ UNCHANGED <<op, attempt, next_url, yielded, pages>>
    /\ all_5xx' = FALSE
    /\ UNCHANGED <<env_vars, remote_subs, main_vars, writes, fetched>>

\* a variant that treats a failure status like a 429: sleep and ask again
NextFailedRetried ==
    /\ cl = "next_page"
    /\ Send
    /\ \E st \in (OtherStatuses \ {200}) \cup ServerErrorStatuses :
        resp' = [NoResp EXCEPT !.status = st]
    /\ slept' = Quarters * NextPageFallbackSleep
    /\ UNCHANGED <<op, cl, exc, attempt, next_url, yielded, fetches, next_429s, pages>>
    /\ all_5xx' = FALSE
    /\ UNCHANGED <<env_vars, remote_subs, main_vars, writes, fetched>>

\* lines 202-203: a next page answers with a failure status
NextFailed ==
    /\ cl = "next_page"
    /\ Send
    /\ fetches' = fetches + 1
    /\ \E st \in (OtherStatuses \ {200}) \cup ServerErrorStatuses :
        resp' = [NoResp EXCEPT !.status = st]
    /\ slept' = 0
    /\ Raise("RuntimeError")
    /\ UNCHANGED <<op, attempt, next_url, yielded, next_429s, pages>>
    /\ all_5xx' = FALSE
    /\ UNCHANGED <<env_vars, remote_subs, main_vars, writes, fetched>>

\* lines 205-214: a next page arrives
NextPage ==
    /\ cl = "next_page"
    /\ Send
    /\ fetches' = fetches + 1
    /\ \E r \in PageResponses(op, next_url) :
        /\ yielded' = yielded \o YieldPage(op, r)
        /\ next_url' = LinkNext(_parse_link_header(r.link))
        /\ resp' = Consumed(r)
    /\ pages' = pages + 1
    /\ slept' = 0
    /\ cl' = IF next_url' # 0 THEN "next_page" ELSE "returned"
    /\ UNCHANGED <<op, attempt, exc, next_429s>>
    /\ all_5xx' = FALSE
    /\ UNCHANGED <<env_vars, remote_subs, main_vars, writes, fetched>>

\* ------------------------------------------------------------ update_submission_grade

\* lines 234-237: the answer to the PUT, as _request returned it
UpdateChecked ==
    /\ cl = "responded"
    /\ op.name = "update_submission_grade"
    /\ IF ~Ok(resp)
       THEN Raise("RuntimeError")
       ELSE /\ cl' = "returned"
            /\ UNCHANGED exc
    /\ attempt' = 0
    /\ slept' = 0
    /\ UNCHANGED <<op, resp, next_url, yielded, fetches, next_429s, pages, methods>>
    /\ all_5xx' = FALSE
    /\ UNCHANGED <<env_vars, remote_subs, main_vars, writes, fetched>>

\* ------------------------------------------------------------ main

list_assignments ==
    [NoOp EXCEPT !.name = "list_assignments", !.method = "GET"]
list_submissions(assignment_id) ==
    [NoOp EXCEPT !.name = "list_submissions", !.method = "GET",
                 !.assignment = assignment_id]
update_submission_grade(assignment_id, user_id, posted_grade) ==
    [NoOp EXCEPT !.name = "update_submission_grade", !.method = "PUT",
                 !.assignment = assignment_id, !.user = user_id,
                 !.grade = posted_grade]

\* a variant that posts whatever DRY_RUN says
PostsGradeAlways(c) == TRUE

\* line 361: `if cfg.dry_run` keeps the update from being posted
PostsGrade(c) == ~c.dry_run

\* a variant that signals errors in a dry run too
ExitCodeIgnoresDryRun(dry_run, errors) == IF errors > 0 THEN 2 ELSE 0

\* lines 385-387
ExitCode(dry_run, errors) == IF (~dry_run) /\ errors > 0 THEN 2 ELSE 0

\* an exception leaves main(): the run is over without an exit code of main
Crash(e) ==
    /\ pc' = "crashed"
    /\ uncaught' = e

\* lines 283-287: ENFORCE_THURSDAY_5PM is on and it is not Thursday 5:00pm
MainGatedOff ==
    /\ pc = "start"
    /\ ~should_run_now(cfg, FALSE)
    /\ pc' = "done"
    /\ exit_code' = 0
    /\ UNCHANGED <<window, assignments, eligible, a_i, submissions, s_i,
                   total_updates, total_skips_same, total_errors,
                   updates_for_assignment, skips_for_assignment, uncaught>>
    /\ UNCHANGED <<env_vars, remote_subs, client_vars, methods, writes, fetched>>

\* lines 283-295: the run starts and asks for the assignments
MainStart ==
    /\ pc = "start"
    /\ \E at_thu_5pm \in BOOLEAN : should_run_now(cfg, at_thu_5pm)
    /\ window' = compute_due_window(cfg, Now)
    /\ StartCall(list_assignments)
    /\ pc' = "list_assignments"
    /\ UNCHANGED <<assignments, eligible, a_i, submissions, s_i,
                   total_updates, total_skips_same, total_errors,
                   updates_for_assignment, skips_for_assignment, exit_code, uncaught>>
    /\ UNCHANGED <<env_vars, remote_subs, methods, writes, fetched>>

\* line 295: list_assignments raised; nothing in main() catches it
MainAssignmentsFailed ==
    /\ pc = "list_assignments"
    /\ cl = "raised"
    /\ Crash(exc)
    /\ EndCall
    /\ UNCHANGED <<window, assignments, eligible, a_i, submissions, s_i,
                   total_updates, total_skips_same, total_errors,
                   updates_for_assignment, skips_for_assignment, exit_code>>
    /\ UNCHANGED <<env_vars, remote_subs, methods, writes, fetched>>

\* lines 295-318: the assignments are filtered and sorted
MainAssignmentsListed ==
    /\ pc = "list_assignments"
    /\ cl = "returned"
    /\ assignments' = yielded
    /\ IF DueParseRaises(yielded)
       THEN /\ Crash("ValueError")
            /\ UNCHANGED <<eligible, a_i>>
       ELSE /\ eligible' = SortByDue(SelectEligible(cfg, window, yielded))
            /\ a_i' = 1
            /\ pc' = "next_assignment"
            /\ UNCHANGED uncaught
    /\ EndCall
    /\ UNCHANGED <<window, submissions, s_i,
                   total_updates, total_skips_same, total_errors,
                   updates_for_assignment, skips_for_assignment, exit_code>>
    /\ UNCHANGED <<env_vars, remote_subs, methods, writes, fetched>>

\* lines 320-326: the next eligible assignment; its submissions are asked for
MainFetchSubmissions ==
    /\ pc = "next_assignment"
    /\ a_i <= Len(eligible)
    /\ StartCall(list_submissions(eligible[a_i].id))
    /\ pc' = "list_submissions"
    /\ UNCHANGED <<window, assignments, eligible, a_i, submissions, s_i,
                   total_updates, total_skips_same, total_errors,
                   updates_for_assignment, skips_for_assignment, exit_code, uncaught>>
    /\ UNCHANGED <<env_vars, remote_subs, methods, writes, fetched>>

\* a variant that does not count the failed fetch
MainSubmissionsFailedUncounted ==
    /\ pc = "list_submissions"
    /\ cl = "raised"
    /\ a_i' = a_i + 1
    /\ pc' = "next_assignment"
    /\ EndCall
    /\ UNCHANGED <<window, assignments, eligible, submissions, s_i,
                   total_updates, total_skips_same, total_errors,
                   updates_for_assignment, skips_for_assignment, exit_code, uncaught>>
    /\ UNCHANGED <<env_vars, remote_subs, methods, writes>>
    /\ fetched' = Append(fetched, [assignment |-> op.assignment, ok |-> FALSE])

\* a variant without the try: a failed list_submissions leaves main()
MainSubmissionsFailedAborts ==
    /\ pc = "list_submissions"
    /\ cl = "raised"
    /\ Crash(exc)
    /\ EndCall
    /\ UNCHANGED <<window, assignments, eligible, a_i, submissions, s_i,
                   total_updates, total_skips_same, total_errors,
                   updates_for_assignment, skips_for_assignment, exit_code>>
    /\ UNCHANGED <<env_vars, remote_subs, methods, writes, fetched>>

\* lines 327-330: except Exception around list_submissions
MainSubmissionsFailed ==
    /\ pc = "list_submissions"
    /\ cl = "raised"
    /\ total_errors' = total_errors + 1
    /\ a_i' = a_i + 1
    /\ pc' = "next_assignment"
    /\ EndCall
    /\ UNCHANGED <<window, assignments, eligible, submissions, s_i,
                   total_updates, total_skips_same,
                   updates_for_assignment, skips_for_assignment, exit_code, uncaught>>
    /\ UNCHANGED <<env_vars, remote_subs, methods, writes>>
    /\ fetched' = Append(fetched, [assignment |-> op.assignment, ok |-> FALSE])

\* lines 326, 332-333: the submissions of the assignment have arrived
MainSubmissionsListed ==
    /\ pc = "list_submissions"
    /\ cl = "returned"
    /\ submissions' = yielded
    /\ s_i' = 1
    /\ updates_for_assignment' = 0
    /\ skips_for_assignment' = 0
    /\ pc' = "next_submission"
    /\ EndCall
    /\ UNCHANGED <<window, assignments, eligible, a_i,
                   total_updates, total_skips_same, total_errors,
                   exit_code, uncaught>>
    /\ UNCHANGED <<env_vars, remote_subs, methods, writes>>
    /\ fetched' = Append(fetched, [assignment |-> op.assignment, ok |-> TRUE])

\* a variant that counts a submission without a user id as unchanged
MainSkipNoUserCounted ==
    /\ pc = "next_submission"
    /\ s_i <= Len(submissions)
    /\ ~submissions[s_i].user_id.some
    /\ skips_for_assignment' = skips_for_assignment + 1
    /\ s_i' = s_i + 1
    /\ UNCHANGED <<pc, window, assignments, eligible, a_i, submissions,
                   total_updates, total_skips_same, total_errors,
                   updates_for_assignment, exit_code, uncaught>>
    /\ UNCHANGED <<env_vars, remote_subs, client_vars, methods, writes, fetched>>

\* lines 335-338: a submission without a user id is passed over
MainSkipNoUser ==
    /\ pc = "next_submission"
    /\ s_i <= Len(submissions)
    /\ ~submissions[s_i].user_id.some
    /\ s_i' = s_i + 1
    /\ UNCHANGED <<pc, window, assignments, eligible, a_i, submissions,
                   total_updates, total_skips_same, total_errors,
                   updates_for_assignment, skips_for_assignment, exit_code, uncaught>>
    /\ UNCHANGED <<env_vars, remote_subs, client_vars, methods, writes, fetched>>

\* lines 340-359: the submission already carries the desired grade
MainSkipSame ==
    /\ pc = "next_submission"
    /\ s_i <= Len(submissions)
    /\ submissions[s_i].user_id.some
    /\ ~NeedsWrite(eligible[a_i], submissions[s_i])
    /\ skips_for_assignment' = skips_for_assignment + 1
    /\ s_i' = s_i + 1
    /\ UNCHANGED <<pc, window, assignments, eligible, a_i, submissions,
                   total_updates, total_skips_same, total_errors,
                   updates_for_assignment, exit_code, uncaught>>
    /\ UNCHANGED <<env_vars, remote_subs, client_vars, methods, writes, fetched>>

\* lines 361-364: DRY_RUN counts the update and posts nothing
MainDryRun ==
    /\ pc = "next_submission"
    /\ s_i <= Len(submissions)
    /\ submissions[s_i].user_id.some
    /\ NeedsWrite(eligible[a_i], submissions[s_i])
    /\ ~PostsGrade(cfg)
    /\ updates_for_assignment' = updates_for_assignment + 1
    /\ s_i' = s_i + 1
    /\ UNCHANGED <<pc, window, assignments, eligible, a_i, submissions,
                   total_updates, total_skips_same, total_errors,
                   skips_for_assignment, exit_code, uncaught>>
    /\ UNCHANGED <<env_vars, remote_subs, client_vars, methods, writes, fetched>>

\* lines 366-367: the desired grade is posted
MainUpdate ==
    /\ pc = "next_submission"
    /\ s_i <= Len(submissions)
    /\ submissions[s_i].user_id.some
    /\ NeedsWrite(eligible[a_i], submissions[s_i])
    /\ PostsGrade(cfg)
    /\ LET desired == DesiredGrade(eligible[a_i], submissions[s_i])
       IN  /\ StartCall(update_submission_grade(eligible[a_i].id,
                                                submissions[s_i].user_id.v, desired))
           /\ writes' = Append(writes, [run |-> run, assignment |-> eligible[a_i].id,
                                        index |-> s_i,
                                        user |-> submissions[s_i].user_id.v,
                                        grade |-> desired, ok |-> FALSE])
    /\ pc' = "update"
    /\ UNCHANGED <<window, assignments, eligible, a_i, submissions, s_i,
                   total_updates, total_skips_same, total_errors,
                   updates_for_assignment, skips_for_assignment, exit_code, uncaught>>
    /\ UNCHANGED <<env_vars, remote_subs, methods, fetched>>

\* line 368: the update went through
MainUpdated ==
    /\ pc = "update"
    /\ cl = "returned"
    /\ updates_for_assignment' = updates_for_assignment + 1
    /\ s_i' = s_i + 1
    /\ pc' = "next_submission"
    /\ EndCall
    /\ UNCHANGED <<window, assignments, eligible, a_i, submissions,
                   total_updates, total_skips_same, total_errors,
                   skips_for_assignment, exit_code, uncaught>>
    /\ writes' = [writes EXCEPT ![Len(writes)].ok = TRUE]
    /\ UNCHANGED <<env_vars, remote_subs, methods, fetched>>

\* a variant with the counting line after the try statement: a failed update
\* is counted as an update too
MainUpdateFailedCounted ==
    /\ pc = "update"
    /\ cl = "raised"
    /\ total_errors' = total_errors + 1
    /\ updates_for_assignment' = updates_for_assignment + 1
    /\ s_i' = s_i + 1
    /\ pc' = "next_submission"
    /\ EndCall
    /\ UNCHANGED <<window, assignments, eligible, a_i, submissions,
                   total_updates, total_skips_same,
                   skips_for_assignment, exit_code, uncaught>>
    /\ UNCHANGED <<env_vars, remote_subs, methods, writes, fetched>>

\* lines 369-371: except Exception around update_submission_grade
MainUpdateFailed ==
    /\ pc = "update"
    /\ cl = "raised"
    /\ total_errors' = total_errors + 1
    /\ s_i' = s_i + 1
    /\ pc' = "next_submission"
    /\ EndCall
    /\ UNCHANGED <<window, assignments, eligible, a_i, submissions,
                   total_updates, total_skips_same,
                   updates_for_assignment, skips_for_assignment, exit_code, uncaught>>
    /\ UNCHANGED <<env_vars, remote_subs, methods, writes, fetched>>

\* lines 373-377: the assignment is done, its counts join the totals
MainAssignmentDone ==
    /\ pc = "next_submission"
    /\ s_i > Len(submissions)
    /\ total_updates' = total_updates + updates_for_assignment
    /\ total_skips_same' = total_skips_same + skips_for_assignment
    /\ a_i' = a_i + 1
    /\ pc' = "next_assignment"
    /\ UNCHANGED <<window, assignments, eligible, submissions, s_i, total_errors,
                   updates_for_assignment, skips_for_assignment, exit_code, uncaught>>
    /\ UNCHANGED <<env_vars, remote_subs, client_vars, methods, writes, fetched>>

\* lines 379-387: the summary and the exit code
MainFinish ==
    /\ pc = "next_assignment"
    /\ a_i > Len(eligible)
    /\ exit_code' = ExitCode(cfg.dry_run, total_errors)
    /\ pc' = "done"
    /\ UNCHANGED <<window, assignments, eligible, a_i, submissions, s_i,
                   total_updates, total_skips_same, total_errors,
                   updates_for_assignment, skips_for_assignment, uncaught>>
    /\ UNCHANGED <<env_vars, remote_subs, client_vars, methods, writes, fetched>>


\* the program is started again (by its scheduler) after a completed run; the
\* server keeps what the earlier run posted
MainRerun ==
    /\ pc = "done"
    /\ run < MaxRuns
    /\ run' = run + 1
    /\ pc' = "start"
    /\ window' = [start |-> 0, end |-> 0]
    /\ assignments' = <<>>
    /\ eligible' = <<>>
    /\ a_i' = 0
    /\ submissions' = <<>>
    /\ s_i' = 0
    /\ total_updates' = 0
    /\ total_skips_same' = 0
    /\ total_errors' = 0
    /\ updates_for_assignment' = 0
    /\ skips_for_assignment' = 0
    /\ exit_code' = -1
    /\ uncaught' = ""
    /\ exc' = ""
    /\ UNCHANGED <<op, cl, attempt, resp, slept, next_url, yielded, all_5xx,
                   fetches, next_429s, pages>>
    /\ UNCHANGED <<cfg, remote_assignments, remote_subs, methods, writes>>
    /\ fetched' = <<>>

\* ------------------------------------------------------------ the runs checked

RECURSIVE Pick(_, _, _)
Pick(seq, S, i) ==
    IF i > Len(seq) THEN <<>>
    ELSE (IF i \in S THEN <<seq[i]>> ELSE <<>>) \o Pick(seq, S, i + 1)

\* the subsequences of seq that hold at most n elements
SubSeqs(seq, n) ==
    {Pick(seq, S, 1) : S \in {T \in SUBSET (1..Len(seq)) : Cardinality(T) <= n}}

Chars_Incomplete_Padded == <<" ","I","n","c","o","m","p","l","e","t","e">>

\* the assignments a course may hold: a binary-completion one, a point-based
\* one worth 5.5 points (due earlier, listed later), one without a due date
\* and one whose due_at is no ISO-8601 timestamp
AssignmentCatalog ==
    <<[id |-> 101, due_at |-> Iso(15), grading_type |-> COMPLETE_INCOMPLETE,
       points_possible |-> Num(10), assignment_group_id |-> 7],
      [id |-> 102, due_at |-> Iso(12), grading_type |-> "points",
       points_possible |-> Num(55), assignment_group_id |-> 7],
      [id |-> 103, due_at |-> NoDate, grading_type |-> COMPLETE_INCOMPLETE,
       points_possible |-> NoInt, assignment_group_id |-> 8],
      [id |-> 104, due_at |-> BadDate, grading_type |-> COMPLETE_INCOMPLETE,
       points_possible |-> Num(10), assignment_group_id |-> 7]>>

\* the submission records an assignment may hold
SubmissionCatalog ==
    <<[user_id |-> Num(11), submitted_at |-> Iso(14),
       posted_grade |-> NoText, grade |-> NoText],
      [user_id |-> Num(12), submitted_at |-> NoDate,
       posted_grade |-> Text(Chars_Incomplete_Padded), grade |-> NoText],
      [user_id |-> NoInt, submitted_at |-> Iso(13),
       posted_grade |-> NoText, grade |-> NoText],
      [user_id |-> Num(13), submitted_at |-> Iso(16),
       posted_grade |-> Text(<<"5">>), grade |-> Text(COMPLETE)]>>

\* the configurations: GRACE_DAYS and WINDOW_DAYS at their defaults, no
\* ASSIGNMENT_GROUP_ID; the Thursday gate is tried on the default configuration
Configs ==
    {c \in [dry_run : BOOLEAN, require_complete_incomplete : BOOLEAN,
            enforce_thursday_5pm : BOOLEAN, assignment_group_id : {NoInt},
            grace_days : {1}, window_days : {7}] :
        c.enforce_thursday_5pm => (c.dry_run /\ c.require_complete_incomplete)}

\* int(text) for a decimal numeral with an optional minus sign
DigitValue(c) == CHOOSE d \in 0..9 : DigitChars[d + 1] = c

RECURSIVE NatOfDigits(_)
NatOfDigits(s) ==
    IF s = <<>> THEN 0
    ELSE 10 * NatOfDigits(SubSeq(s, 1, Len(s) - 1)) + DigitValue(s[Len(s)])

PyInt(s) == IF Head(s) = "-" THEN 0 - NatOfDigits(Tail(s)) ELSE NatOfDigits(s)

\* os.getenv(name, default)
GetEnv(v, default) == IF v.some THEN v.v ELSE default

Truthy == {<<"1">>, <<"t","r","u","e">>, <<"y","e","s">>, <<"y">>, <<"o","n">>}

env_bool(v, default) == IF ~v.some THEN default ELSE Lower(Strip(v.v)) \in Truthy

\* load_config, lines 73-85, on an environment that sets the three required
\* variables: the numbers are taken as int() reads them, with no range check
load_config(env) ==
    [grace_days |-> PyInt(GetEnv(env.GRACE_DAYS, <<"1">>)),
     window_days |-> PyInt(GetEnv(env.WINDOW_DAYS, <<"7">>)),
     assignment_group_id |->
        IF env.ASSIGNMENT_GROUP_ID.some /\ env.ASSIGNMENT_GROUP_ID.v # <<>>
        THEN Num(PyInt(env.ASSIGNMENT_GROUP_ID.v)) ELSE NoInt,
     dry_run |-> env_bool(env.DRY_RUN, TRUE),
     enforce_thursday_5pm |-> env_bool(env.ENFORCE_THURSDAY_5PM, FALSE),
     require_complete_incomplete |-> env_bool(env.REQUIRE_COMPLETE_INCOMPLETE, TRUE)]

\* environments that set WINDOW_DAYS and leave the rest at the defaults
WindowEnvironments ==
    [GRACE_DAYS : {NoText}, WINDOW_DAYS : {Text(<<"0">>), Text(<<"-","1">>)},
     ASSIGNMENT_GROUP_ID : {NoText}, DRY_RUN : {NoText},
     ENFORCE_THURSDAY_5PM : {NoText}, REQUIRE_COMPLETE_INCOMPLETE : {NoText}]

WindowConfigs == {load_config(env) : env \in WindowEnvironments}

AssignmentIds == {AssignmentCatalog[i].id : i \in 1..Len(AssignmentCatalog)}

\* will this run ask for the submissions of assignment id: the assignment is
\* listed and eligible, and no due_at of the listing stops the run
Fetchable(c, as, id) ==
    /\ ~DueParseRaises(as)
    /\ \E i \in 1..Len(as) :
          /\ as[i].id = id
          /\ IsEligible(c, compute_due_window(c, Now), as[i])

\* the program before main() is entered
Blank ==
    /\ run = 1
    /\ pc = "start"
    /\ window = [start |-> 0, end |-> 0]
    /\ assignments = <<>>
    /\ eligible = <<>>
    /\ a_i = 0
    /\ submissions = <<>>
    /\ s_i = 0
    /\ total_updates = 0
    /\ total_skips_same = 0
    /\ total_errors = 0
    /\ updates_for_assignment = 0
    /\ skips_for_assignment = 0
    /\ exit_code = -1
    /\ uncaught = ""
    /\ op = NoOp
    /\ cl = "idle"
    /\ attempt = 0
    /\ resp = NoResp
    /\ slept = 0
    /\ next_url = 0
    /\ yielded = <<>>
    /\ exc = ""
    /\ all_5xx = FALSE
    /\ fetches = 0
    /\ next_429s = 0
    /\ pages = 0
    /\ methods = {}
    /\ writes = <<>>
    /\ fetched = <<>>

Init ==
    /\ cfg \in Configs \cup WindowConfigs
    /\ remote_assignments \in SubSeqs(AssignmentCatalog, MaxAssignments)
    /\ remote_subs \in [AssignmentIds -> SubSeqs(SubmissionCatalog, MaxSubs)]
    \* the submissions of an assignment that the run never asks for are left out
    /\ \A id \in AssignmentIds :
          ~Fetchable(cfg, remote_assignments, id) => remote_subs[id] = <<>>
    /\ Blank

Next ==
    \/ ReqTransportError
    \/ ReqRateLimited
    \/ ReqServerError
    \/ ReqSucceeded
    \/ ReqRejected
    \/ FirstPage
    \/ NextTransportError
    \/ NextRateLimited
    \/ NextFailed
    \/ NextPage
    \/ UpdateChecked
    \/ MainGatedOff
    \/ MainStart
    \/ MainAssignmentsFailed
    \/ MainAssignmentsListed
    \/ MainFetchSubmissions
    \/ MainSubmissionsFailed
    \/ MainSubmissionsListed
    \/ MainSkipNoUser
    \/ MainSkipSame
    \/ MainDryRun
    \/ MainUpdate
    \/ MainUpdated
    \/ MainUpdateFailed
    \/ MainAssignmentDone
    \/ MainFinish

\* one run of the program
Spec == Init /\ [][Next]_vars

\* the program run again and again on a course of at most one assignment
InitRerun ==
    /\ Init
    /\ Len(remote_assignments) <= 1

NextRerun ==
    \/ Next
    \/ MainRerun

SpecRerun == InitRerun /\ [][NextRerun]_vars

\* A run on a course of at most one assignment in which every exchange that
\* _request starts comes to an end, _get_paginated looks at the page that
\* _request returns, and every next page is at some time answered with
\* something other than 429.
InitPaging ==
    /\ Init
    /\ cfg \in Configs
    /\ Len(remote_assignments) <= 1

Exchange ==
    \/ ReqTransportError
    \/ ReqRateLimited
    \/ ReqServerError
    \/ ReqSucceeded
    \/ ReqRejected

PageAnswered ==
    \/ NextTransportError
    \/ NextFailed
    \/ NextPage

SpecPaging ==
    /\ InitPaging
    /\ [][Next]_vars
    /\ WF_vars(Exchange)
    /\ WF_vars(FirstPage)
    /\ WF_vars(PageAnswered)

\* Courses of one assignment with one submission, over the grading types,
\* point values, submission times and grades that the grading decision reads.
\* Points are in tenths: 5.0, 5.5 and -1.5.
GradingAssignments ==
    {[id |-> 101, due_at |-> Iso(15), grading_type |-> g, points_possible |-> p,
      assignment_group_id |-> 7] :
        g \in {COMPLETE_INCOMPLETE, "points", "pass_fail"},
        p \in {NoInt, Num(50), Num(55), Num(-15)}}

\* not submitted, submitted before the due date, submitted after it
GradingSubmissions ==
    [user_id : {Num(11)},
     submitted_at : {NoDate, Iso(14), Iso(16)},
     posted_grade : {NoText, Text(<<"5">>), Text(Chars_Incomplete_Padded), Text(COMPLETE)},
     grade : {NoText, Text(<<"5">>), Text(COMPLETE)}]

InitGrading ==
    /\ cfg \in {c \in Configs : ~c.enforce_thursday_5pm /\ ~c.require_complete_incomplete}
    /\ \E a \in GradingAssignments : remote_assignments = <<a>>
    /\ \E s \in GradingSubmissions :
          remote_subs = [id \in AssignmentIds |-> IF id = 101 THEN <<s>> ELSE <<>>]
    /\ Blank

\* the steps of a run whose listings have one page
NextGrading ==
    \/ ReqTransportError
    \/ ReqRateLimited
    \/ ReqServerError
    \/ ReqSucceeded
    \/ ReqRejected
    \/ FirstPage
    \/ UpdateChecked
    \/ MainStart
    \/ MainAssignmentsFailed
    \/ MainAssignmentsListed
    \/ MainFetchSubmissions
    \/ MainSubmissionsFailed
    \/ MainSubmissionsListed
    \/ MainSkipSame
    \/ MainDryRun
    \/ MainUpdate
    \/ MainUpdated
    \/ MainUpdateFailed
    \/ MainAssignmentDone
    \/ MainFinish

SpecGrading == InitGrading /\ [][NextGrading]_vars


\* ------------------------------------------------------------ properties

ServerErrors == 500..599

\* the records of the assignment in hand that main() has dealt with
Processed == 1..(s_i - 1)

\* record i of the assignment in hand has a user id and carries a grade that
\* differs from the desired one
Differs(i) ==
    /\ submissions[i].user_id.some
    /\ CurrentGrade(submissions[i]) # Text(DesiredGrade(eligible[a_i], submissions[i]))

\* record i of the assignment in hand has a user id and carries the desired grade
Same(i) ==
    /\ submissions[i].user_id.some
    /\ CurrentGrade(submissions[i]) = Text(DesiredGrade(eligible[a_i], submissions[i]))

\* C1: no submission that an earlier run wrote successfully is written again
\* by a later run (nothing else changes the server's submissions).
C1_NoRewriteOnRerun ==
    \A i, j \in DOMAIN writes :
        ~ /\ writes[i].run < writes[j].run
          /\ writes[i].ok
          /\ writes[i].assignment = writes[j].assignment
          /\ writes[i].user = writes[j].user

\* C2: _request never hands a 429 response to its caller.
C2_Never429ToCaller == cl = "responded" => resp.status # 429

\* C3: a dry run sends nothing but GET requests, calls update_submission_grade
\* for no submission, and counts as an update every processed submission whose
\* grade differs from the desired one.
C3_DryRunPostsNothing ==
    cfg.dry_run =>
        /\ methods \subseteq {"GET"}
        /\ writes = <<>>
        /\ pc = "next_submission" =>
              updates_for_assignment = Cardinality({i \in Processed : Differs(i)})

C3_Witness ==
    /\ cfg.dry_run
    /\ pc = "done"
    /\ total_updates = 2
    /\ methods = {"GET"}

\* C4: update_submission_grade is called only for a submission whose
\* normalized current grade differs from the desired grade, with exactly the
\* desired grade, at most once per submission record of an assignment; a
\* submission that carries the desired grade is counted as a skip and not written.
C4_WriteOnlyWhenNeeded ==
    /\ pc = "update" =>
          /\ Differs(s_i)
          /\ op.name = "update_submission_grade"
          /\ op.assignment = eligible[a_i].id
          /\ op.user = submissions[s_i].user_id.v
          /\ op.grade = DesiredGrade(eligible[a_i], submissions[s_i])
          /\ writes[Len(writes)] =
                [run |-> run, assignment |-> op.assignment, index |-> s_i,
                 user |-> op.user, grade |-> op.grade, ok |-> FALSE]
    /\ op.name = "update_submission_grade" => pc = "update"
    /\ \A i, j \in DOMAIN writes :
          (/\ writes[i].run = writes[j].run
           /\ writes[i].assignment = writes[j].assignment
           /\ writes[i].index = writes[j].index) => i = j
    /\ pc \in {"next_submission", "update"} =>
          /\ skips_for_assignment = Cardinality({i \in Processed : Same(i)})
          /\ \A k \in DOMAIN writes :
                (writes[k].run = run /\ writes[k].assignment = eligible[a_i].id)
                    => Differs(writes[k].index)

C4_Witness ==
    /\ ~cfg.dry_run
    /\ pc = "done"
    /\ Len(writes) >= 1
    /\ total_skips_same >= 1

\* C5: a completed run returns 2 exactly when it is no dry run and counted at
\* least one error, and 0 otherwise.
C5_ExitCode ==
    /\ pc = "done" =>
          /\ exit_code \in {0, 2}
          /\ exit_code = 2 <=> (~cfg.dry_run /\ total_errors >= 1)
    /\ pc # "done" => exit_code = -1

C5_Witness ==
    /\ pc = "done"
    /\ cfg.dry_run
    /\ total_errors >= 1
    /\ exit_code = 0

\* C6: _request makes at most 8 attempts; a transport error on attempts 1..7 is
\* followed by a sleep of min(60, 0.25 * 2^attempt) seconds and another attempt;
\* _request raises the transport error only on attempt 8.
C6_TransportRetry ==
    /\ cl \in {"request", "responded"} => attempt \in 1..8
    /\ (cl = "request" /\ attempt > 1 /\ resp = NoResp) =>
          slept = Min(60 * 4, Pow(2, attempt - 1))
    /\ (cl = "raised" /\ exc = "RequestException" /\ pages = 0) => attempt = 8

C6_Witness ==
    /\ cl = "raised"
    /\ exc = "RequestException"
    /\ pages = 0
    /\ attempt = 8

\* C7: a 5xx answer on attempts 1..7 is followed by a sleep of
\* min(60, 0.25 * 2^attempt) seconds and another attempt; a 5xx answer reaches
\* the caller only as the answer to attempt 8; _request raises nothing on a
\* 5xx; when every attempt is answered 5xx the caller gets the 8th answer.
C7_ServerErrorRetry ==
    /\ (cl = "request" /\ resp.status \in ServerErrors) =>
          /\ attempt > 1
          /\ slept = Min(60 * 4, Pow(2, attempt - 1))
    /\ (cl = "responded" /\ resp.status \in ServerErrors) => attempt = 8
    /\ (cl = "responded" /\ all_5xx) => (attempt = 8 /\ resp.status \in ServerErrors)
    /\ (cl = "raised" /\ exc \in {"RequestException", "ValueError"}) =>
          resp.status \notin ServerErrors

C7_Witness ==
    /\ cl = "responded"
    /\ all_5xx
    /\ attempt = 8
    /\ resp.status = 500

\* C8: after a 429 with a numeric Retry-After of N the client has slept N + 1
\* seconds and is about to send the same request again.
C8_RetryAfterHonoured ==
    (resp.status = 429 /\ resp.retry_after.kind = "digits") =>
        /\ slept = 4 * (resp.retry_after.n + 1)
        /\ cl \in {"request", "next_page"}

\* C9: a listing that returns has yielded the records of its pages in page
\* order, none skipped, repeated or moved, and has made one fetch call per page
\* plus one per 429 answer on a page after the first.
C9_PaginationComplete ==
    /\ (cl = "returned" /\ IsListing(op)) =>
          /\ yielded = Listing(op)
          /\ fetches = pages + next_429s
    /\ cl = "next_page" =>
          /\ next_url \in 2..Len(Listing(op))
          /\ yielded = SubSeq(Listing(op), 1, next_url - 1)
          /\ fetches = pages + next_429s

C9_Witness ==
    /\ cl = "returned"
    /\ IsListing(op)
    /\ pages = 2
    /\ next_429s = 1
    /\ fetches = 3
    /\ Len(yielded) = 2

\* C10, as claimed: a transport error that leaves _request after the last
\* attempt ends the run, whichever operation was in progress.
C10_TransportErrorAborts ==
    [][(cl = "raised" /\ exc = "RequestException" /\ attempt = max_attempts)
          => (pc' = "crashed" /\ uncaught' = "RequestException")]_vars

\* C10, amended: an exception raised by list_assignments ends the run; an
\* exception raised by list_submissions or update_submission_grade, a
\* transport error included, is counted as one error and the run goes on with
\* the next assignment or submission.
C10_FailureScope ==
    [][cl = "raised" =>
          IF op.name = "list_assignments"
          THEN pc' = "crashed" /\ uncaught' = exc
          ELSE /\ uncaught' = ""
               /\ total_errors' = total_errors + 1
               /\ pc' = IF op.name = "list_submissions"
                        THEN "next_assignment" ELSE "next_submission"
               /\ a_i' = IF op.name = "list_submissions" THEN a_i + 1 ELSE a_i
               /\ s_i' = IF op.name = "list_submissions" THEN s_i ELSE s_i + 1]_vars

C10_Witness ==
    /\ pc = "next_assignment"
    /\ cl = "idle"
    /\ exc = "RequestException"
    /\ total_errors = 1
    /\ Len(eligible) = 2
    /\ a_i = 2
    /\ remote_subs[eligible[1].id] = <<>>

\* C11: when list_submissions fails for an eligible assignment, main() counts
\* exactly one error, has issued and issues no write for that assignment, and
\* goes on to the next eligible assignment; eligible assignments are fetched
\* one after the other in list order, writes go to the assignment in hand
\* only, and nothing after the listing of the assignments ends the run early.
C11_FetchFailureIsolated ==
    [][/\ (pc = "list_submissions" /\ cl = "raised") =>
             /\ total_errors' = total_errors + 1
             /\ writes' = writes
             /\ \A k \in DOMAIN writes :
                   ~(writes[k].run = run /\ writes[k].assignment = eligible[a_i].id)
             /\ pc' = "next_assignment"
             /\ a_i' = a_i + 1
             /\ UNCHANGED <<eligible, total_updates, total_skips_same>>
       /\ (pc = "next_assignment" /\ a_i <= Len(eligible)) =>
             /\ pc' = "list_submissions"
             /\ op'.name = "list_submissions"
             /\ op'.assignment = eligible[a_i].id
             /\ a_i' = a_i
       /\ Len(writes') > Len(writes) =>
             /\ pc = "next_submission"
             /\ writes'[Len(writes')].assignment = eligible[a_i].id
       /\ pc' = "crashed" => pc = "list_assignments"
       /\ (pc' = "done" /\ pc # "start") => a_i > Len(eligible)]_vars

C11_Witness ==
    /\ pc = "done"
    /\ ~cfg.dry_run
    /\ Len(eligible) = 2
    /\ remote_subs[eligible[1].id] # <<>>
    /\ total_errors = 1
    /\ total_updates = 1
    /\ Len(writes) = 1
    /\ writes[1].ok
    /\ writes[1].assignment = eligible[2].id

\* C12: when update_submission_grade fails for a submission of a live run,
\* main() counts exactly one error and no update for it and moves to the next
\* submission of the same assignment; the submissions of an assignment are
\* gone through one by one to the last, and then the next assignment follows.
C12_WriteFailureIsolated ==
    [][/\ (pc = "update" /\ cl = "raised") =>
             /\ total_errors' = total_errors + 1
             /\ s_i' = s_i + 1
             /\ pc' = "next_submission"
             /\ UNCHANGED <<updates_for_assignment, skips_for_assignment,
                            total_updates, total_skips_same,
                            a_i, eligible, submissions>>
       /\ (pc = "next_submission" /\ s_i <= Len(submissions)) =>
             /\ a_i' = a_i
             /\ \/ s_i' = s_i + 1 /\ pc' = "next_submission"
                \/ s_i' = s_i /\ pc' = "update"
       /\ (pc = "next_submission" /\ s_i > Len(submissions)) =>
             /\ pc' = "next_assignment"
             /\ a_i' = a_i + 1]_vars

C12_Witness ==
    /\ pc = "done"
    /\ Len(writes) = 2
    /\ ~writes[1].ok
    /\ writes[2].ok
    /\ writes[1].assignment = writes[2].assignment
    /\ total_errors = 1
    /\ total_updates = 1
    /\ exit_code = 2

\* the places of main() that lie after compute_due_window and before the end
Running ==
    pc \in {"list_assignments", "next_assignment", "list_submissions",
            "next_submission", "update"}

\* C13: once the assignments are listed, the eligible list holds exactly the
\* listed assignments whose due timestamp parses and lies in [start, end) and
\* that pass the group and grading-type filters, so none with a null or
\* unparseable due timestamp; and no due timestamp ends the run.
C13_BadDueDatesExcluded ==
    /\ pc \in {"next_assignment", "list_submissions", "next_submission", "update"} =>
          /\ \A i \in DOMAIN eligible :
                /\ eligible[i].due_at.kind = "iso"
                /\ window.start <= eligible[i].due_at.t
                /\ eligible[i].due_at.t < window.end
          /\ \A i \in DOMAIN assignments :
                (/\ assignments[i].due_at.kind = "iso"
                 /\ window.start <= assignments[i].due_at.t
                 /\ assignments[i].due_at.t < window.end
                 /\ cfg.assignment_group_id.some =>
                        assignments[i].assignment_group_id = cfg.assignment_group_id.v
                 /\ cfg.require_complete_incomplete =>
                        assignments[i].grading_type = "complete_incomplete")
                => \E j \in DOMAIN eligible : eligible[j] = assignments[i]
    /\ ~(pc = "crashed" /\ assignments # <<>>)

\* C14: the configuration has grace_days >= 0 and window_days >= 0, and the
\* window of a run has start <= end, with start < end when window_days > 0 and
\* start = end when window_days = 0.
C14_WindowOrdered ==
    Running =>
        /\ cfg.grace_days >= 0
        /\ cfg.window_days >= 0
        /\ window.start <= window.end
        /\ cfg.window_days > 0 => window.start < window.end
        /\ cfg.window_days = 0 => window.start = window.end

\* the grade the claim names for points p (in tenths), for the point values of
\* GradingAssignments: 5.0 and 5.5 give 5, -1.5 gives -1, none gives 1
ClaimedPoints(p) ==
    CASE ~p.some   -> <<"1">>
      [] p.v = 50  -> <<"5">>
      [] p.v = 55  -> <<"5">>
      [] p.v = -15 -> <<"-", "1">>

ClaimedGrade(binary, p, submitted) ==
    IF binary
    THEN IF submitted THEN <<"c","o","m","p","l","e","t","e">>
                      ELSE <<"i","n","c","o","m","p","l","e","t","e">>
    ELSE IF submitted THEN ClaimedPoints(p) ELSE <<"0">>

\* C15: every grade that is posted is the one fixed by the assignment's
\* grading type, its points_possible and whether the submission has a
\* submitted timestamp: complete / incomplete for a binary-completion
\* assignment, the truncated points (1 if absent) / 0 for any other type;
\* neither the grades the submission carries nor its lateness enter.
C15_DesiredGrade ==
    /\ \A k \in DOMAIN writes :
          LET a == remote_assignments[1]
              r == remote_subs[writes[k].assignment][writes[k].index]
          IN  writes[k].grade =
                  ClaimedGrade(a.grading_type = "complete_incomplete",
                               a.points_possible, r.submitted_at.kind # "null")
    /\ pc = "update" =>
          op.grade = ClaimedGrade(eligible[a_i].grading_type = "complete_incomplete",
                                  eligible[a_i].points_possible,
                                  submissions[s_i].submitted_at.kind # "null")

C15_Witness ==
    /\ pc = "done"
    /\ Len(writes) = 1
    /\ writes[1].ok
    /\ writes[1].grade = <<"5">>
    /\ remote_assignments[1].grading_type = "pass_fail"
    /\ remote_assignments[1].points_possible = Num(55)
    /\ remote_subs[101][1].submitted_at = Iso(16)
    /\ remote_subs[101][1].grade = Text(COMPLETE)

\* the text is neither "complete" nor "incomplete" once trimmed and lower-cased
Unrecognised(g) ==
    ~g.some \/ Lower(Strip(g.v)) \notin {<<"c","o","m","p","l","e","t","e">>,
                                         <<"i","n","c","o","m","p","l","e","t","e">>}

\* the submission carries a posted grade, and it is not complete / incomplete
NumericPosted(r) == r.posted_grade.some /\ Unrecognised(r.posted_grade)

\* main() is about to deal with a submission that has a user id and belongs
\* to a binary-completion assignment
AtBinarySubmission ==
    /\ pc = "next_submission"
    /\ s_i <= Len(submissions)
    /\ submissions[s_i].user_id.some
    /\ eligible[a_i].grading_type = "complete_incomplete"

\* the submission in hand is written, or counted as an update in a dry run
WriteProduced ==
    /\ skips_for_assignment' = skips_for_assignment
    /\ IF cfg.dry_run
       THEN updates_for_assignment' = updates_for_assignment + 1
       ELSE pc' = "update" /\ Len(writes') = Len(writes) + 1

SkipProduced ==
    /\ skips_for_assignment' = skips_for_assignment + 1
    /\ UNCHANGED <<updates_for_assignment, writes>>
    /\ pc' = "next_submission"

\* C17, as claimed: a submission of a binary-completion assignment whose posted
\* grade is not complete / incomplete is written, whatever its grade field holds.
C17_UnrecognisedPostedForcesWrite ==
    [][(AtBinarySubmission /\ NumericPosted(submissions[s_i]))
          => WriteProduced]_vars

\* C17, amended: such a submission is written when its grade field is not
\* complete / incomplete either; when the grade field is, that value is the
\* current grade, and the submission is skipped if it is the desired grade and
\* written if it is the other one.
C17_UnrecognisedBothForcesWrite ==
    [][(AtBinarySubmission /\ NumericPosted(submissions[s_i])) =>
          LET g == submissions[s_i].grade
              submitted == submissions[s_i].submitted_at.kind # "null"
          IN  IF Unrecognised(g)
              THEN WriteProduced
              ELSE IF Lower(Strip(g.v)) =
                        ClaimedGrade(TRUE, eligible[a_i].points_possible, submitted)
                   THEN SkipProduced
                   ELSE WriteProduced]_vars

\* a numeric posted grade and a numeric grade on a submitted record of a
\* binary-completion assignment: the write is under way
C17_Witness ==
    /\ pc = "update"
    /\ eligible[a_i].grading_type = "complete_incomplete"
    /\ submissions[s_i].posted_grade = Text(<<"5">>)
    /\ submissions[s_i].grade = Text(<<"5">>)
    /\ op.grade = <<"c","o","m","p","l","e","t","e">>

\* _request has just been answered 429 without a usable Retry-After header
FallbackSlept ==
    /\ cl \in {"request", "responded"}
    /\ resp.status = 429
    /\ resp.retry_after.kind = "absent"

\* the attempt that the last answer of _request belongs to
AnsweredAttempt == IF cl = "request" THEN attempt - 1 ELSE attempt

\* C16, as claimed: after a 429 without a numeric Retry-After on attempt k,
\* _request has slept min(60, 0.25 * 2^k) seconds, the delay of a transport
\* error or 5xx on attempt k, and never more than 60 seconds.
C16_FallbackIsBackoff ==
    FallbackSlept =>
        /\ slept = Min(60 * 4, Pow(2, AnsweredAttempt))
        /\ slept <= 60 * 4

\* C16, amended: it has slept min(60, 2^k) seconds, the capped exponential
\* without the 0.25 coefficient, and never more than 60 seconds.
C16_FallbackDelay ==
    FallbackSlept =>
        /\ slept = 4 * Min(60, Pow(2, AnsweredAttempt))
        /\ slept <= 60 * 4

\* the cap at work: 2^6 = 64 seconds are cut to 60
C16_Witness ==
    /\ FallbackSlept
    /\ cl = "request"
    /\ attempt = 7
    /\ slept = 240

\* C18: a listing that has been started comes to its end, by returning or by
\* raising, when every next page is at some time answered with something
\* other than 429; and a 429 with a readable Retry-After on a next page leaves
\* the walk at that page to ask again, however many 429 answers came before.
C18_PaginationTerminates ==
    /\ (IsListing(op) /\ cl \in {"request", "responded", "next_page"})
           ~> (cl \in {"returned", "raised"})
    /\ [][(cl = "next_page" /\ resp'.status = 429 /\ cl' # "raised") =>
              /\ cl' = "next_page"
              /\ UNCHANGED <<next_url, yielded, pages>>]_vars

\* a listing of two pages has returned after MaxNext429 answers of 429
C18_Witness ==
    /\ IsListing(op)
    /\ cl = "returned"
    /\ pages = 2
    /\ next_429s = MaxNext429

\* the exchange of this step ends in a transport error or a 5xx answer
FailsTransiently == resp' = NoResp \/ resp'.status \in ServerErrors

\* C19: a transport error or 5xx answer to a fetch of a page after the first
\* makes _get_paginated raise at once, that fetch being the only one the
\* failure gets; the same failure on the first page, before attempt 8, is
\* followed by the backoff sleep and another attempt.
C19_NextPagesNotRetried ==
    /\ [][/\ (cl = "next_page" /\ FailsTransiently) =>
                /\ cl' = "raised"
                /\ exc' \in {"RequestException", "RuntimeError"}
                /\ fetches' = fetches + 1
                /\ slept' = 0
          /\ (cl = "request" /\ IsListing(op) /\ FailsTransiently) =>
                IF attempt < 8
                THEN /\ cl' = "request"
                     /\ attempt' = attempt + 1
                     /\ slept' = Min(60 * 4, Pow(2, attempt))
                     /\ fetches' = fetches
                ELSE cl' \in {"raised", "responded"}]_vars
    /\ [](/\ cl = "raised"
          /\ pages >= 1
          /\ exc \in {"RequestException", "RuntimeError"}
          => fetches = pages + next_429s + 1)

C19_Witness ==
    /\ cl = "raised"
    /\ exc = "RequestException"
    /\ pages = 1
    /\ next_429s = 0
    /\ fetches = 2

\* the records with a user id that the server holds for an assignment
UserRecords(id) ==
    Cardinality({i \in DOMAIN remote_subs[id] : remote_subs[id][i].user_id.some})

\* the records with a user id over the list_submissions calls that returned
RECURSIVE FetchedUserRecords(_)
FetchedUserRecords(f) ==
    IF f = <<>> THEN 0
    ELSE (IF Head(f).ok THEN UserRecords(Head(f).assignment) ELSE 0)
         + FetchedUserRecords(Tail(f))

FailedFetches == Cardinality({k \in DOMAIN fetched : ~fetched[k].ok})

\* the update calls of this run that are over and did not return
FailedWrites ==
    Cardinality({k \in DOMAIN writes :
                    /\ writes[k].run = run
                    /\ ~writes[k].ok
                    /\ ~(pc = "update" /\ k = Len(writes))})

\* the failed update calls for the records of the assignment in hand
FailedWritesHere ==
    Cardinality({k \in DOMAIN writes :
                    /\ writes[k].run = run
                    /\ writes[k].assignment = eligible[a_i].id
                    /\ writes[k].index \in Processed
                    /\ ~writes[k].ok})

\* C20: when a run ends, updates + unchanged skips + failed writes is the
\* number of records with a user id over the assignments whose submissions were
\* fetched, and errors is failed fetches + failed writes; while an assignment
\* is gone through, its updates + skips + failed writes is the number of its
\* processed records with a user id, and no write is for a record without one.
C20_CounterConservation ==
    /\ pc = "done" =>
          total_updates + total_skips_same + FailedWrites
              = FetchedUserRecords(fetched)
    /\ total_errors = FailedFetches + FailedWrites
    /\ pc \in {"next_submission", "update"} =>
          /\ updates_for_assignment + skips_for_assignment + FailedWritesHere
                = Cardinality({i \in Processed : submissions[i].user_id.some})
          /\ \A k \in DOMAIN writes :
                (writes[k].run = run /\ writes[k].assignment = eligible[a_i].id)
                    => submissions[writes[k].index].user_id.some

\* a live run has ended with one failed fetch, one failed write and a
\* fetched record without a user id
C20_Witness ==
    /\ pc = "done"
    /\ ~cfg.dry_run
    /\ FailedFetches = 1
    /\ FailedWrites = 1
    /\ total_errors = 2
    /\ \E k \in DOMAIN fetched :
          /\ fetched[k].ok
          /\ UserRecords(fetched[k].assignment) < Len(remote_subs[fetched[k].assignment])

====
